---- MODULE Spec2Model ----
(***************************************************************************)
(* Model of training/train_model.py: the synthetic shape generator, its    *)
(* augmentation pipeline, the rasterizer and the dataset loop.             *)
(*                                                                         *)
(* Arithmetic.  The source computes in binary floating point.  The model   *)
(* computes on an integer lattice: a coordinate is an integer number of    *)
(* lattice units, a normalised (canvas) coordinate is an exact fraction    *)
(* num/den, and int(), round() (round-half-to-even) and sqrt are computed  *)
(* on those fractions.                                                     *)
(***************************************************************************)
EXTENDS Integers, Sequences, FiniteSets, TLC

VARIABLES
    vertices,       \* interpolate_along_edges: argument `vertices`
    total_points,   \* interpolate_along_edges: argument `total_points`
    interp_out,     \* interpolate_along_edges: returned list
    ipc,            \* "call" before the call, "ret" after it
    rpoints,        \* normalize_points / rasterize: argument `points`
    rsize,          \* normalize_points / rasterize: argument `size`
    rstroke,        \* rasterize: argument `stroke_width`, in half pixels
    norm_out,       \* normalize_points: returned list
    img_out,        \* rasterize: returned image
    rpc,            \* "call", then "normalized" or "rasterized"
    canvas_size,    \* configuration: CANVAS_SIZE
    samples_per_class, \* configuration: SAMPLES_PER_CLASS
    stroke_width,   \* configuration: STROKE_WIDTH, in half pixels
    class_idx,      \* generate_dataset: class_idx of the outer loop
    sample_no,      \* generate_dataset: iterations of the inner loop done
    polyline,       \* generate_dataset / augment: the local `points`
    image,          \* generate_dataset: the local `img`
    images,         \* generate_dataset: the list `images`
    labels,         \* generate_dataset: the list `labels`
    pc,             \* position in generate_dataset / augment
    dataset,        \* generate_dataset: the returned (images, labels)
    py_rng,         \* state of the module-global generator of `random`
    np_rng,         \* state of the module-global generator of `np.random`
    run,            \* number of the program run (1 or 2)
    prev_dataset,   \* the dataset returned by the previous run
    heap,           \* one stage called alone: the list objects, heap[1] the
                    \* caller's list passed as `points`
    before,         \* the points of the caller's list before the call
    ret,            \* index in heap of the object the stage returned
    stage,          \* "ready" before the call, then the stage called
    draw            \* the values the random calls of the stage returned

ivars == <<vertices, total_points, interp_out, ipc>>

rvars == <<rpoints, rsize, rstroke, norm_out, img_out, rpc>>

cvars == <<canvas_size, samples_per_class, stroke_width>>

dvars == <<class_idx, sample_no, polyline, image, images, labels, pc>>

gvars == <<dataset, py_rng, np_rng, run, prev_dataset>>

svars == <<heap, before, ret, stage, draw>>

vars == <<ivars, rvars, cvars, dvars, gvars, svars>>

\* ------------------------------------------------------------------------
\* Bounds of the checked instances
\* ------------------------------------------------------------------------
MaxV == 2         \* interpolate_along_edges: vertex coordinates in 0..MaxV
MaxVerts == 3     \* interpolate_along_edges: at most MaxVerts vertices
MaxTotal == 5     \* interpolate_along_edges: total_points in 1..MaxTotal
MaxCoord == 2     \* normalize_points / rasterize: coordinates in 0..MaxCoord
MaxPolyLen == 3   \* normalize_points / rasterize: 1..MaxPolyLen points
MaxSize == 5      \* normalize_points / rasterize: size in 1..MaxSize
MaxStroke == 4    \* rasterize: stroke_width in {1/2, .., MaxStroke/2}
MaxSeed == 2      \* the generator states at import are 0..MaxSeed
MaxStageLen == 5  \* one stage called alone: polylines of 1..MaxStageLen points

\* ------------------------------------------------------------------------
\* Numeric helpers (Python built-ins as used by the source)
\* ------------------------------------------------------------------------
Max2(a, b) == IF a >= b THEN a ELSE b

Min2(a, b) == IF a <= b THEN a ELSE b

Abs(a) == IF a >= 0 THEN a ELSE -a

\* floor(sqrt(n)) for n >= 0, by bisection on lo <= sqrt(n) < hi
RECURSIVE SqrtBisect(_, _, _)
SqrtBisect(n, lo, hi) ==
    IF hi - lo <= 1 THEN lo
    ELSE LET mid == (lo + hi) \div 2
         IN  IF mid * mid <= n THEN SqrtBisect(n, mid, hi)
             ELSE SqrtBisect(n, lo, mid)

ISqrt(n) == SqrtBisect(n, 0, 46341)

\* Python round(num/den) for den > 0: nearest integer, ties to the even one
RoundHalfEven(num, den) ==
    LET q == num \div den
        r == num % den
    IN  IF 2 * r < den THEN q
        ELSE IF 2 * r > den THEN q + 1
        ELSE IF q % 2 = 0 THEN q ELSE q + 1

\* Python int(num/den) for den > 0: truncation toward zero
IntTrunc(num, den) == IF num >= 0 THEN num \div den ELSE -((-num) \div den)

RECURSIVE SumSeq(_)
SumSeq(s) == IF s = <<>> THEN 0 ELSE Head(s) + SumSeq(Tail(s))

\* s[:k]
Prefix(s, k) == SubSeq(s, 1, Min2(Len(s), Max2(k, 0)))

RECURSIVE Concat(_)
Concat(ss) == IF ss = <<>> THEN <<>> ELSE Head(ss) \o Concat(Tail(ss))

\* ------------------------------------------------------------------------
\* Geometry helpers
\* ------------------------------------------------------------------------

\* Edge lengths are kept in hundredths of a lattice unit
LenScale == 100

\* math.sqrt((b[0]-a[0])**2 + (b[1]-a[1])**2), in 1/LenScale lattice units
EdgeLen(a, b) ==
    ISqrt(LenScale * LenScale
          * ((b[1] - a[1]) * (b[1] - a[1]) + (b[2] - a[2]) * (b[2] - a[2])))

\* lerp_points(p1, p2, n): n points, t = i / max(n - 1, 1), rounded to lattice
lerp_points(p1, p2, n) ==
    [j \in 1..n |->
        LET d == Max2(n - 1, 1)
        IN  << p1[1] + RoundHalfEven((j - 1) * (p2[1] - p1[1]), d),
               p1[2] + RoundHalfEven((j - 1) * (p2[2] - p1[2]), d) >>]

\* per-edge point count: max(2, int(round(total_points * elen / total_len)))
EdgeCount(total, elen, total_len) ==
    Max2(2, RoundHalfEven(total * elen, total_len))

\* interpolate_along_edges(vertices, total_points)
interpolate_along_edges(verts, total) ==
    LET edge_lengths == [i \in 1..(Len(verts) - 1) |-> EdgeLen(verts[i], verts[i + 1])]
        total_len == SumSeq(edge_lengths)
        pts == Concat([i \in 1..(Len(verts) - 1) |->
                 lerp_points(verts[i], verts[i + 1],
                             EdgeCount(total, edge_lengths[i], total_len))])
    IN  IF total_len = 0 THEN [i \in 1..total |-> verts[1]]
        ELSE Prefix(pts, total)

\* ------------------------------------------------------------------------
\* Shape space of the pipeline
\*
\* One lattice unit is 5 units of the source's 100 x 100 shape space, so the
\* centre (50, 50) is (10, 10).  Angles are counted in steps of 5 degrees
\* (72 to the turn); factors such as 0.85 or 1.8 are kept in hundredths.
\* A call of random.uniform(a, b), random.random() or random.randint(a, b)
\* yields one of the listed values of its range.
\* ------------------------------------------------------------------------
SHAPE_NAMES == << "circle", "square", "rectangle", "triangle", "arrow-left",
                  "arrow-right", "arrow-up", "arrow-down", "diamond", "line" >>

NUM_CLASSES == 10

CANVAS_SIZE == 48

\* SAMPLES_PER_CLASS = 4000 in the source; the checked instance is smaller
SAMPLES_PER_CLASS == 2

\* STROKE_WIDTH = 1.5, in half pixels
STROKE_WIDTH == 3

CLOSED_SHAPES == {"circle", "square", "rectangle", "triangle", "diamond"}

\* ROTATION_RANGES[shape_name] = <<rot_min, rot_max>>, in steps of 5 degrees
ROTATION_RANGES(shape_name) ==
    CASE shape_name = "circle"      -> <<-36, 36>>
      [] shape_name = "square"      -> <<-3, 3>>
      [] shape_name = "rectangle"   -> <<-3, 3>>
      [] shape_name = "triangle"    -> <<-6, 6>>
      [] shape_name = "arrow-left"  -> <<-2, 2>>
      [] shape_name = "arrow-right" -> <<-2, 2>>
      [] shape_name = "arrow-up"    -> <<-2, 2>>
      [] shape_name = "arrow-down"  -> <<-2, 2>>
      [] shape_name = "diamond"     -> <<-3, 3>>
      [] shape_name = "line"        -> <<-36, 36>>

\* 100 * cos of 0, 5, .., 90 degrees
CosQuarter == << 100, 100, 98, 97, 94, 91, 87, 82, 77, 71,
                 64, 57, 50, 42, 34, 26, 17, 9, 0 >>

\* 100 * math.cos and 100 * math.sin of an angle of k steps
Cos100(k) ==
    LET a == k % 72
    IN  IF a <= 18 THEN CosQuarter[a + 1]
        ELSE IF a <= 36 THEN -CosQuarter[36 - a + 1]
        ELSE IF a <= 54 THEN -CosQuarter[a - 36 + 1]
        ELSE CosQuarter[72 - a + 1]

Sin100(k) == Cos100(k - 18)

\* the centre cx, cy = 50, 50 of every generator
CX == 10

CY == 10

\* ------------------------------------------------------------------------
\* Shape generators.  The argument d holds the values drawn by the calls of
\* the random module, under the names of the source's variables.
\* ------------------------------------------------------------------------

\* generate_circle: num_points + 1 points on a jittered ellipse
generate_circle(d) ==
    [j \in 1..(d.num_points + 1) |->
        LET theta == d.start_angle + RoundHalfEven((j - 1) * 72, d.num_points)
            r == d.base_r * (100 + d.jitter[j])
            rx == (r * d.eccentricity) \div 100
            ry == (r * 100) \div d.eccentricity
        IN  << CX + RoundHalfEven(rx * Cos100(theta), 10000),
               CY + RoundHalfEven(ry * Sin100(theta), 10000) >>]

\* generate_square: five corners (closed), interpolate_along_edges
generate_square(d) ==
    LET h0 == RoundHalfEven(d.size * d.side_var[1], 200)
        h1 == RoundHalfEven(d.size * d.side_var[2], 200)
        h2 == RoundHalfEven(d.size * d.side_var[3], 200)
        h3 == RoundHalfEven(d.size * d.side_var[4], 200)
        sk == RoundHalfEven(d.skew * d.size, 100)
        corners == << <<CX - h0, CY - h1>>,
                      <<CX + h0, CY - h1 + sk>>,
                      <<CX + h2 + sk, CY + h3>>,
                      <<CX - h2, CY + h3>>,
                      <<CX - h0, CY - h1>> >>
    IN  interpolate_along_edges(corners, d.num_points)

\* generate_rectangle: as the square, with h = w / aspect and a random
\* exchange of x and y
generate_rectangle(d) ==
    LET w2 == RoundHalfEven(d.w, 2)
        h2 == RoundHalfEven(d.w * 100, 2 * d.aspect)
        h == RoundHalfEven(d.w * 100, d.aspect)
        corners == << <<CX - w2, CY - h2>>,
                      <<CX + w2, CY - h2 + RoundHalfEven(d.skew * h, 100)>>,
                      <<CX + w2 + RoundHalfEven(d.skew * d.w, 100), CY + h2>>,
                      <<CX - w2, CY + h2>>,
                      <<CX - w2, CY - h2>> >>
        flipped == [i \in 1..5 |-> <<corners[i][2], corners[i][1]>>]
    IN  interpolate_along_edges(IF d.flip < 50 THEN flipped ELSE corners,
                                d.num_points)

\* generate_triangle: three vertices at sorted angles, closed
generate_triangle(d) ==
    LET vertex(k) ==
            LET r == d.base_r * d.radius[k]
            IN  << CX + RoundHalfEven(r * Cos100(d.angles[k]), 10000),
                   CY + RoundHalfEven(r * Sin100(d.angles[k]), 10000) >>
        verts == << vertex(1), vertex(2), vertex(3), vertex(1) >>
    IN  interpolate_along_edges(verts, d.num_points)

\* _generate_arrow(direction): curved shaft, then wing1, tip, wing2
generate_arrow(direction, d) ==
    LET half == RoundHalfEven(d.length, 2)
        start == CASE direction = "right" -> <<CX - half, CY>>
                   [] direction = "left"  -> <<CX + half, CY>>
                   [] direction = "up"    -> <<CX, CY + half>>
                   [] OTHER               -> <<CX, CY - half>>
        tip   == CASE direction = "right" -> <<CX + half, CY>>
                   [] direction = "left"  -> <<CX - half, CY>>
                   [] direction = "up"    -> <<CX, CY - half>>
                   [] OTHER               -> <<CX, CY + half>>
        shaft_dir == CASE direction = "right" -> <<1, 0>>
                       [] direction = "left"  -> <<-1, 0>>
                       [] direction = "up"    -> <<0, -1>>
                       [] OTHER               -> <<0, 1>>
        \* angle = math.atan2(dy, dx) of shaft_dir
        angle == CASE direction = "right" -> 0
                   [] direction = "left"  -> 36
                   [] direction = "up"    -> 54
                   [] OTHER               -> 18
        shaft == [j \in 1..d.shaft_points |->
                    LET den == d.shaft_points - 1
                        curve_offset ==
                            d.curvature * Sin100(RoundHalfEven((j - 1) * 36, den))
                    IN  << start[1] + RoundHalfEven((j - 1) * (tip[1] - start[1]), den)
                              + RoundHalfEven(-shaft_dir[2] * curve_offset, 10000),
                           start[2] + RoundHalfEven((j - 1) * (tip[2] - start[2]), den)
                              + RoundHalfEven(shaft_dir[1] * curve_offset, 10000) >>]
        wing1 == << tip[1] - RoundHalfEven(d.head_size * Cos100(angle - d.head_angle), 100),
                    tip[2] - RoundHalfEven(d.head_size * Sin100(angle - d.head_angle), 100) >>
        wing2 == << tip[1] - RoundHalfEven(d.head_size * Cos100(angle + d.head_angle), 100),
                    tip[2] - RoundHalfEven(d.head_size * Sin100(angle + d.head_angle), 100) >>
    IN  shaft \o << wing1, tip, wing2 >>

\* generate_diamond: four axis vertices, taller than wide, closed
generate_diamond(d) ==
    LET up(k) == RoundHalfEven(d.size * d.h_stretch * d.axis_var[k], 20000)
        out(k) == RoundHalfEven(d.size * d.w_stretch * d.axis_var[k], 20000)
        corners == << <<CX, CY - up(1)>>,
                      <<CX + out(2), CY>>,
                      <<CX, CY + up(3)>>,
                      <<CX - out(4), CY>>,
                      <<CX, CY - up(1)>> >>
    IN  interpolate_along_edges(corners, d.num_points)

\* generate_line: num_points points between two end points, bowed
generate_line(d) ==
    LET x1 == CX - RoundHalfEven(d.length * Cos100(d.angle), 200)
        y1 == CY - RoundHalfEven(d.length * Sin100(d.angle), 200)
        x2 == CX + RoundHalfEven(d.length * Cos100(d.angle), 200)
        y2 == CY + RoundHalfEven(d.length * Sin100(d.angle), 200)
    IN  [j \in 1..d.num_points |->
            LET den == d.num_points - 1
                offset == d.curvature * Sin100(RoundHalfEven((j - 1) * 36, den))
            IN  << x1 + RoundHalfEven((j - 1) * (x2 - x1), den)
                      + RoundHalfEven(-(y2 - y1) * offset, d.length * 10000),
                   y1 + RoundHalfEven((j - 1) * (y2 - y1), den)
                      + RoundHalfEven((x2 - x1) * offset, d.length * 10000) >>]

\* GENERATORS[shape_name]()
GENERATORS(shape_name, d) ==
    CASE shape_name = "circle"      -> generate_circle(d)
      [] shape_name = "square"      -> generate_square(d)
      [] shape_name = "rectangle"   -> generate_rectangle(d)
      [] shape_name = "triangle"    -> generate_triangle(d)
      [] shape_name = "arrow-left"  -> generate_arrow("left", d)
      [] shape_name = "arrow-right" -> generate_arrow("right", d)
      [] shape_name = "arrow-up"    -> generate_arrow("up", d)
      [] shape_name = "arrow-down"  -> generate_arrow("down", d)
      [] shape_name = "diamond"     -> generate_diamond(d)
      [] shape_name = "line"        -> generate_line(d)

\* ------------------------------------------------------------------------
\* Hand-drawing simulation and augmentation stages.  Lengths drawn at random
\* (intensity, alpha, noise) are in hundredths of a lattice unit, values of
\* random.random() in hundredths, Gaussian draws in standard deviations.
\* ------------------------------------------------------------------------

\* add_hand_wobble(points, intensity): d holds freq1, freq2, phase1, phase2
\* and the per-point random.gauss draws
add_hand_wobble(points, intensity, d) ==
    LET n == Len(points)
        moved(i) ==
            LET dx == IF i = 1 THEN points[2][1] - points[1][1]
                      ELSE IF i = n THEN points[n][1] - points[n - 1][1]
                      ELSE points[i + 1][1] - points[i - 1][1]
                dy == IF i = 1 THEN points[2][2] - points[1][2]
                      ELSE IF i = n THEN points[n][2] - points[n - 1][2]
                      ELSE points[i + 1][2] - points[i - 1][2]
                mag == ISqrt(10000 * (dx * dx + dy * dy))
                a1 == RoundHalfEven((i - 1) * n * d.freq1, Max2(n - 1, 1)) + d.phase1
                a2 == RoundHalfEven((i - 1) * n * d.freq2, Max2(n - 1, 1)) + d.phase2
                wobble == RoundHalfEven(Sin100(a1) * intensity * 60
                                        + Sin100(a2) * intensity * 30
                                        + d.gauss[i] * intensity * 3000, 10000)
            IN  IF mag = 0 THEN points[i]
                ELSE << points[i][1] + RoundHalfEven(-dy * wobble, mag),
                        points[i][2] + RoundHalfEven(dx * wobble, mag) >>
    IN  IF n < 2 THEN points ELSE [i \in 1..n |-> moved(i)]

\* simulate_incomplete_shape that keeps int(len(points) * ratio) points
\* however few
simulate_incomplete_shape_no_floor(points, is_closed, u, ratio) ==
    IF ~is_closed THEN points
    ELSE IF u > 40 THEN points
    ELSE Prefix(points, IntTrunc(Len(points) * ratio, 100))

\* simulate_incomplete_shape(points, is_closed): u is random.random(),
\* ratio is random.uniform(0.80, 0.95)
simulate_incomplete_shape(points, is_closed, u, ratio) ==
    IF ~is_closed THEN points
    ELSE IF u > 40 THEN points
    ELSE Prefix(points, Max2(3, IntTrunc(Len(points) * ratio, 100)))

\* 100 * atan2(cross, dot + 1e-8) capped at 50 (0.5 rad), for cross >= 0;
\* below the cap atan(t) is taken as t / (1 + 0.28 t^2)
Curvature100(cross, dot) ==
    IF cross = 0 THEN (IF dot < 0 THEN 50 ELSE 0)
    ELSE IF dot <= 0 \/ cross >= dot THEN 50
    ELSE Min2(50, (100 * cross * dot) \div (dot * dot + (28 * cross * cross) \div 100))

\* keep_prob = 0.3 + 0.7 * min(curvatures[i] / 0.5, 1.0) at point i, in
\* hundredths; the curvature of the first and of the last point is 0.0
KeepProb100(points, i) ==
    IF i = 1 \/ i = Len(points) THEN 30
    ELSE LET v1x == points[i][1] - points[i - 1][1]
             v1y == points[i][2] - points[i - 1][2]
             v2x == points[i + 1][1] - points[i][1]
             v2y == points[i + 1][2] - points[i][2]
             cross == Abs(v1x * v2y - v1y * v2x)
             dot == v1x * v2x + v1y * v2y
         IN  30 + (70 * Curvature100(cross, dot)) \div 50

RECURSIVE KeptFrom(_, _, _)
KeptFrom(points, keep, i) ==
    IF i > Len(points) THEN <<>>
    ELSE (IF keep[i] < KeepProb100(points, i) THEN <<points[i]>> ELSE <<>>)
         \o KeptFrom(points, keep, i + 1)

\* simulate_stroke_speed that returns the resampled list however short
simulate_stroke_speed_no_fallback(points, keep) ==
    IF Len(points) < 5 THEN points
    ELSE <<points[1]>> \o KeptFrom(points, keep, 2)

\* simulate_stroke_speed(points): keep[i] is the random.random() drawn for
\* point i
simulate_stroke_speed(points, keep) ==
    IF Len(points) < 5 THEN points
    ELSE LET result == <<points[1]>> \o KeptFrom(points, keep, 2)
         IN  IF Len(result) < 3 THEN points ELSE result

\* kernel = exp(-0.5 * linspace(-2, 2, 7)**2) / sum, in thousandths, for
\* sigma = 3.0: kernel_size = max(3, int(sigma * 2) | 1) = 7
Kernel1000 == << 37, 111, 217, 270, 217, 111, 37 >>

\* np.convolve(field, kernel, mode="same")[i - 1], times 1000
ConvolveSame(field, i) ==
    LET n == Len(field)
        m == (i - 1) + (Min2(n, 7) - 1) \div 2
        taps == {k \in 1..n : m - (k - 1) >= 0 /\ m - (k - 1) <= 6}
        term[k \in 1..n] == field[k] * Kernel1000[m - (k - 1) + 1]
        RECURSIVE Sum(_)
        Sum(S) == IF S = {} THEN 0
                  ELSE LET k == CHOOSE x \in S : TRUE
                       IN  term[k] + Sum(S \ {k})
    IN  Sum(taps)

\* elastic_deform(points, alpha, sigma=3.0): zx, zy are the np.random.randn(n)
\* draws
elastic_deform(points, alpha, zx, zy) ==
    LET n == Len(points)
        dx_field == [k \in 1..n |-> zx[k] * alpha]
        dy_field == [k \in 1..n |-> zy[k] * alpha]
    IN  IF n < 2 THEN points
        ELSE [i \in 1..n |->
                << points[i][1] + RoundHalfEven(ConvolveSame(dx_field, i), 100000),
                   points[i][2] + RoundHalfEven(ConvolveSame(dy_field, i), 100000) >>]

SumX(points) == SumSeq([i \in 1..Len(points) |-> points[i][1]])

SumY(points) == SumSeq([i \in 1..Len(points) |-> points[i][2]])

\* rotate(points, angle) about the centroid (SumX/n, SumY/n)
rotate(points, angle) ==
    LET n == Len(points)
        sx == SumX(points)
        sy == SumY(points)
    IN  [i \in 1..n |->
            << RoundHalfEven(100 * sx + (n * points[i][1] - sx) * Cos100(angle)
                                      - (n * points[i][2] - sy) * Sin100(angle), 100 * n),
               RoundHalfEven(100 * sy + (n * points[i][1] - sx) * Sin100(angle)
                                      + (n * points[i][2] - sy) * Cos100(angle), 100 * n) >>]

\* scale(points, factor) about the centroid, factor in hundredths
scale(points, factor) ==
    LET n == Len(points)
        sx == SumX(points)
        sy == SumY(points)
    IN  [i \in 1..n |->
            << RoundHalfEven(100 * sx + (n * points[i][1] - sx) * factor, 100 * n),
               RoundHalfEven(100 * sy + (n * points[i][2] - sy) * factor, 100 * n) >>]

\* translate(points, dx, dy)
translate(points, dx, dy) ==
    [i \in 1..Len(points) |-> << points[i][1] + dx, points[i][2] + dy >>]

\* add_noise(points, std): g[i] holds the two random.gauss(0, std) values of
\* point i, in hundredths of a lattice unit
add_noise(points, g) ==
    [i \in 1..Len(points) |->
        << points[i][1] + RoundHalfEven(g[i][1], 100),
           points[i][2] + RoundHalfEven(g[i][2], 100) >>]

\* ------------------------------------------------------------------------
\* The values the random calls of one stage may return: each family lists
\* outcomes of the stage's draws, the ends of the ranges among them.
\* ------------------------------------------------------------------------

\* per-point draws: a at the odd positions, b at the even ones
AltField(a, b) == [i \in 1..81 |-> IF i % 2 = 1 THEN a ELSE b]

GenDraws(shape_name) ==
    CASE shape_name = "circle" ->
           << [base_r |-> 5, eccentricity |-> 85, num_points |-> 50,
               start_angle |-> 0, jitter |-> AltField(-8, 8)],
              [base_r |-> 8, eccentricity |-> 115, num_points |-> 80,
               start_angle |-> 31, jitter |-> AltField(8, 8)] >>
      [] shape_name = "square" ->
           << [size |-> 8, skew |-> -8, side_var |-> <<90, 110, 90, 110>>,
               num_points |-> 40],
              [size |-> 13, skew |-> 8, side_var |-> <<110, 90, 100, 110>>,
               num_points |-> 70] >>
      [] shape_name = "rectangle" ->
           << [w |-> 10, aspect |-> 140, skew |-> -6, flip |-> 0,
               num_points |-> 40],
              [w |-> 16, aspect |-> 280, skew |-> 6, flip |-> 50,
               num_points |-> 70] >>
      [] shape_name = "triangle" ->
           << [base_r |-> 5, angles |-> <<0, 24, 48>>,
               radius |-> <<80, 120, 100>>, num_points |-> 35],
              [base_r |-> 8, angles |-> <<10, 20, 60>>,
               radius |-> <<120, 120, 80>>, num_points |-> 60],
              [base_r |-> 5, angles |-> <<7, 7, 7>>,
               radius |-> <<100, 100, 100>>, num_points |-> 35] >>
      [] shape_name = "diamond" ->
           << [size |-> 8, h_stretch |-> 110, w_stretch |-> 70,
               axis_var |-> <<93, 107, 93, 107>>, num_points |-> 35],
              [size |-> 13, h_stretch |-> 150, w_stretch |-> 100,
               axis_var |-> <<107, 93, 100, 107>>, num_points |-> 60] >>
      [] shape_name = "line" ->
           << [length |-> 9, angle |-> 0, num_points |-> 20, curvature |-> -40],
              [length |-> 16, angle |-> 15, num_points |-> 40, curvature |-> 40] >>
      [] OTHER ->
           << [length |-> 9, head_size |-> 3, head_angle |-> 5,
               shaft_points |-> 20, curvature |-> -60],
              [length |-> 14, head_size |-> 5, head_angle |-> 7,
               shaft_points |-> 40, curvature |-> 60] >>

\* intensity = random.uniform(0.5, 2.5) and the draws of add_hand_wobble
WobbleDraws ==
    << [intensity |-> 10, freq1 |-> 1, freq2 |-> 2, phase1 |-> 0, phase2 |-> 0,
        gauss |-> AltField(0, 0)],
       [intensity |-> 50, freq1 |-> 2, freq2 |-> 5, phase1 |-> 18, phase2 |-> 40,
        gauss |-> AltField(3, -3)] >>

\* random.random() and random.uniform(0.80, 0.95) of simulate_incomplete_shape
IncompleteDraws ==
    << [u |-> 41, ratio |-> 80], [u |-> 40, ratio |-> 80], [u |-> 0, ratio |-> 95] >>

\* random.random() of step 3 and the per-point random.random() of
\* simulate_stroke_speed
SpeedDraws ==
    << [u |-> 50, keep |-> AltField(0, 0)],
       [u |-> 49, keep |-> AltField(29, 30)],
       [u |-> 0, keep |-> AltField(99, 99)] >>

\* random.random() of step 4 and alpha = random.uniform(2.0, 6.0)
ElasticDraws == << [u |-> 60, alpha |-> 40], [u |-> 59, alpha |-> 120] >>

\* the two np.random.randn(n) fields of elastic_deform
RandnDraws ==
    << [zx |-> AltField(2, -1), zy |-> AltField(-2, 2)],
       [zx |-> AltField(-3, 0), zy |-> AltField(1, 1)] >>

\* the angle drawn from the rotation range of the circle whatever the class
RotateDraws_circle(shape_name) ==
    << ROTATION_RANGES("circle")[1], ROTATION_RANGES("circle")[2] >>

\* angle_deg = random.uniform(rot_min, rot_max)
RotateDraws(shape_name) ==
    << ROTATION_RANGES(shape_name)[1], ROTATION_RANGES(shape_name)[2] >>

\* scale_factor = random.uniform(0.6, 1.8)
ScaleDraws == << 60, 180 >>

\* tx, ty = random.uniform(-8, 8), twice
TranslateDraws == << <<-2, 2>> >>

\* noise_std = random.uniform(0.3, 1.5) and the random.gauss(0, noise_std)
\* draws of add_noise
NoiseDraws ==
    << AltField(<<6, 6>>, <<6, 6>>), AltField(<<60, -90>>, <<-60, 240>>) >>

\* ------------------------------------------------------------------------
\* The module-global random generators.  `random` and `np.random` each hold
\* one generator state, seeded from operating-system entropy when the module
\* is imported (the source never calls a seed function); every call returns
\* a value determined by the state and advances it.
\* ------------------------------------------------------------------------

\* the state after one call
NextRng(r) == (37 * r + 11) % 256

\* which of the n outcomes of a family the generator in state r returns
RandomIndex(r, n) == ((r \div 8) % n) + 1

\* gen_fn() run on the global generator in state r
seeded_generate(name, r) ==
    [points |-> GENERATORS(name, GenDraws(name)[RandomIndex(r, Len(GenDraws(name)))]),
     py |-> NextRng(r)]

\* augment(points, shape_name) run on the global generators in states r
\* (random) and q (np.random): the eight stages in order
augment(points, name, r, q) ==
    LET is_closed == name \in CLOSED_SHAPES
        w == WobbleDraws[RandomIndex(r, Len(WobbleDraws))]
        p1 == add_hand_wobble(points, w.intensity, w)
        r1 == NextRng(r)
        inc == IncompleteDraws[RandomIndex(r1, Len(IncompleteDraws))]
        p2 == simulate_incomplete_shape(p1, is_closed, inc.u, inc.ratio)
        r2 == IF is_closed THEN NextRng(r1) ELSE r1
        sp == SpeedDraws[RandomIndex(r2, Len(SpeedDraws))]
        p3 == IF sp.u < 50 THEN simulate_stroke_speed(p2, sp.keep) ELSE p2
        r3 == NextRng(r2)
        el == ElasticDraws[RandomIndex(r3, Len(ElasticDraws))]
        z == RandnDraws[RandomIndex(q, Len(RandnDraws))]
        p4 == IF el.u < 60 THEN elastic_deform(p3, el.alpha, z.zx, z.zy) ELSE p3
        r4 == NextRng(r3)
        p5 == rotate(p4, RotateDraws(name)[RandomIndex(r4, Len(RotateDraws(name)))])
        r5 == NextRng(r4)
        p6 == scale(p5, ScaleDraws[RandomIndex(r5, Len(ScaleDraws))])
        r6 == NextRng(r5)
        t == TranslateDraws[RandomIndex(r6, Len(TranslateDraws))]
        p7 == translate(p6, t[1], t[2])
        r7 == NextRng(r6)
        p8 == add_noise(p7, NoiseDraws[RandomIndex(r7, Len(NoiseDraws))])
    IN  [points |-> p8, py |-> NextRng(r7),
         np |-> IF el.u < 60 THEN NextRng(q) ELSE q]

\* ------------------------------------------------------------------------
\* Rasterization
\* ------------------------------------------------------------------------

\* The guard 1e-8 of max(w, h, 1e-8), in lattice units: the lattice of the
\* checked instances is fine enough to hold extents below the guard
Eps == 2

MinOf(S) == CHOOSE m \in S : \A k \in S : m <= k

MaxOf(S) == CHOOSE m \in S : \A k \in S : m >= k

Xs(points) == {points[i][1] : i \in 1..Len(points)}

Ys(points) == {points[i][2] : i \in 1..Len(points)}

\* w = max_x - min_x and h = max_y - min_y of normalize_points
BoxW(points) == MaxOf(Xs(points)) - MinOf(Xs(points))

BoxH(points) == MaxOf(Ys(points)) - MinOf(Ys(points))

\* normalize_points that scales the larger extent to the whole canvas side
normalize_points_no_padding(points, size) ==
    LET min_x == MinOf(Xs(points))
        min_y == MinOf(Ys(points))
        w == BoxW(points)
        h == BoxH(points)
        m == Max2(Max2(w, h), Eps)
        den == 10 * m
        s_num == 10 * size
        offset_x == (size * den - w * s_num) \div 2
        offset_y == (size * den - h * s_num) \div 2
    IN  IF w = 0 /\ h = 0
        THEN [den |-> 2, pts |-> << <<size, size>> >>]
        ELSE [den |-> den,
              pts |-> [i \in 1..Len(points) |->
                         << (points[i][1] - min_x) * s_num + offset_x,
                            (points[i][2] - min_y) * s_num + offset_y >>]]

\* normalize_points(points, size).  The result is a list of canvas points
\* whose coordinates are the fractions pts[i][1]/den, pts[i][2]/den:
\*   padding = size/10, s = (size - 2*padding) / max(w, h, Eps) = s_num/den,
\*   offset_x = (size - w*s)/2, x' = (x - min_x)*s + offset_x
normalize_points(points, size) ==
    LET min_x == MinOf(Xs(points))
        min_y == MinOf(Ys(points))
        w == BoxW(points)
        h == BoxH(points)
        m == Max2(Max2(w, h), Eps)
        den == 10 * m
        s_num == 8 * size
        offset_x == (size * den - w * s_num) \div 2
        offset_y == (size * den - h * s_num) \div 2
    IN  IF w = 0 /\ h = 0
        THEN [den |-> 2, pts |-> << <<size, size>> >>]
        ELSE [den |-> den,
              pts |-> [i \in 1..Len(points) |->
                         << (points[i][1] - min_x) * s_num + offset_x,
                            (points[i][2] - min_y) * s_num + offset_y >>]]

\* range(int(-stroke_width - 1), int(stroke_width + 2)), stroke in halves
StampRange(stroke) ==
    IntTrunc(-stroke - 2, 2) .. (IntTrunc(stroke + 4, 2) - 1)

\* the offsets (wx, wy) with sqrt(wx*wx + wy*wy) <= stroke_width
StampOffsets(stroke) ==
    {o \in StampRange(stroke) \X StampRange(stroke) :
        stroke >= 0 /\ 4 * (o[1] * o[1] + o[2] * o[2]) <= stroke * stroke}

\* the bounds test with an inclusive upper bound
InCanvas_inclusive(px, py, size) ==
    0 <= px /\ px <= size /\ 0 <= py /\ py <= size

\* if 0 <= px < size and 0 <= py < size
InCanvas(px, py, size) ==
    0 <= px /\ px < size /\ 0 <= py /\ py < size

\* steps = max(int(sqrt(dx*dx + dy*dy) * 2), 1) for a segment given by the
\* numerators dx, dy over den
SegSteps(dx, dy, den) ==
    Max2(ISqrt(4 * (dx * dx + dy * dy)) \div den, 1)

\* the stamp pixels (px, py) computed while drawing segment i:
\*   cx = x1 + (s/steps)*dx, px = int(round(cx + wx)), likewise py
SegStamps(norm, i, stroke) ==
    LET x1 == norm.pts[i - 1][1]
        y1 == norm.pts[i - 1][2]
        dx == norm.pts[i][1] - x1
        dy == norm.pts[i][2] - y1
        steps == SegSteps(dx, dy, norm.den)
        cden == norm.den * steps
    IN  {<< RoundHalfEven(x1 * steps + s * dx + o[1] * cden, cden),
            RoundHalfEven(y1 * steps + s * dy + o[2] * cden, cden) >> :
                s \in 0..steps, o \in StampOffsets(stroke)}

\* the stamp pixels of segment i for which img[py, px] = 1.0 is executed
SegPixels(norm, i, size, stroke) ==
    {p \in SegStamps(norm, i, stroke) : InCanvas(p[1], p[2], size)}

\* rasterize(points, size, stroke_width).  The image is its side and the set
\* `lit` of the (px, py) that were assigned 1.0; every other pixel is 0.0.
rasterize(points, size, stroke) ==
    LET norm == normalize_points(points, size)
    IN  [size |-> size,
         lit |-> UNION {SegPixels(norm, i, size, stroke) : i \in 2..Len(norm.pts)}]

\* img[py, px] of an image
Pixel(img, px, py) == IF <<px, py>> \in img.lit THEN 1 ELSE 0

Grid(size) == (0..(size - 1)) \X (0..(size - 1))

\* ------------------------------------------------------------------------
\* Specification SpecInterp: interpolate_along_edges applied to every vertex
\* list of the bounded instance
\* ------------------------------------------------------------------------
Lattice(m) == (0..m) \X (0..m)

VertexLists == UNION {[1..k -> Lattice(MaxV)] : k \in 1..MaxVerts}

IdleInterp ==
    /\ vertices = <<>>
    /\ total_points = 0
    /\ interp_out = <<>>
    /\ ipc = "idle"

IdleRaster ==
    /\ rpoints = <<>>
    /\ rsize = 0
    /\ rstroke = 0
    /\ norm_out = [den |-> 1, pts |-> <<>>]
    /\ img_out = [size |-> 0, lit |-> {}]
    /\ rpc = "idle"

NoImage == [size |-> 0, lit |-> {}]

NoDraw == [u |-> 0]

IdleStages ==
    /\ heap = <<>>
    /\ before = <<>>
    /\ ret = 0
    /\ stage = "idle"
    /\ draw = NoDraw

NoDataset == [images |-> <<>>, labels |-> <<>>]

IdleRuns ==
    /\ dataset = NoDataset
    /\ py_rng = 0
    /\ np_rng = 0
    /\ run = 1
    /\ prev_dataset = NoDataset

IdleDataset ==
    /\ canvas_size = CANVAS_SIZE
    /\ samples_per_class = 0
    /\ stroke_width = STROKE_WIDTH
    /\ class_idx = 0
    /\ sample_no = 0
    /\ polyline = <<>>
    /\ image = NoImage
    /\ images = <<>>
    /\ labels = <<>>
    /\ pc = "idle"
    /\ IdleRuns

InitInterp ==
    /\ IdleStages
    /\ vertices \in VertexLists
    /\ total_points \in 1..MaxTotal
    /\ interp_out = <<>>
    /\ ipc = "call"
    /\ IdleRaster
    /\ IdleDataset

CallInterpolate ==
    /\ ipc = "call"
    /\ interp_out' = interpolate_along_edges(vertices, total_points)
    /\ ipc' = "ret"
    /\ UNCHANGED <<svars, vertices, total_points, rvars, cvars, dvars, gvars>>

NextInterp == CallInterpolate

SpecInterp == InitInterp /\ [][NextInterp]_vars

\* ------------------------------------------------------------------------
\* Specification SpecRaster: normalize_points and rasterize applied to every
\* points, size and stroke width of the bounded instance
\* ------------------------------------------------------------------------
Polylines == UNION {[1..k -> Lattice(MaxCoord)] : k \in 1..MaxPolyLen}

InitRaster ==
    /\ IdleStages
    /\ rpoints \in Polylines
    /\ rsize \in 1..MaxSize
    /\ rstroke \in 1..MaxStroke
    /\ norm_out = [den |-> 1, pts |-> <<>>]
    /\ img_out = [size |-> 0, lit |-> {}]
    /\ rpc = "call"
    /\ IdleInterp
    /\ IdleDataset

CallNormalize ==
    /\ rpc = "call"
    /\ norm_out' = normalize_points(rpoints, rsize)
    /\ rpc' = "normalized"
    /\ UNCHANGED <<svars, rpoints, rsize, rstroke, img_out, ivars, cvars, dvars, gvars>>

CallRasterize ==
    /\ rpc = "call"
    /\ img_out' = rasterize(rpoints, rsize, rstroke)
    /\ rpc' = "rasterized"
    /\ UNCHANGED <<svars, rpoints, rsize, rstroke, norm_out, ivars, cvars, dvars, gvars>>

NextRaster == CallNormalize \/ CallRasterize

SpecRaster == InitRaster /\ [][NextRaster]_vars

\* ------------------------------------------------------------------------
\* Specification SpecSample: one iteration of the inner loop of
\* generate_dataset (generator, the stages of augment, rasterize, the two
\* appends) for every class and every outcome of the draw families
\* ------------------------------------------------------------------------
shape_name == SHAPE_NAMES[class_idx + 1]

InitSample ==
    /\ IdleStages
    /\ canvas_size = CANVAS_SIZE
    /\ samples_per_class = 1
    /\ stroke_width = STROKE_WIDTH
    /\ class_idx \in 0..(NUM_CLASSES - 1)
    /\ sample_no = 0
    /\ polyline = <<>>
    /\ image = NoImage
    /\ images = <<>>
    /\ labels = <<>>
    /\ pc = "generate"
    /\ IdleRuns
    /\ IdleInterp
    /\ IdleRaster

\* points = gen_fn()
Generate ==
    /\ pc = "generate"
    /\ \E k \in 1..Len(GenDraws(shape_name)) :
          polyline' = GENERATORS(shape_name, GenDraws(shape_name)[k])
    /\ pc' = "wobble"
    /\ UNCHANGED <<svars, class_idx, sample_no, image, images, labels, cvars, ivars, rvars, gvars>>

\* 1. points = add_hand_wobble(points, intensity)
Wobble ==
    /\ pc = "wobble"
    /\ \E k \in 1..Len(WobbleDraws) :
          polyline' = add_hand_wobble(polyline, WobbleDraws[k].intensity, WobbleDraws[k])
    /\ pc' = "incomplete"
    /\ UNCHANGED <<svars, class_idx, sample_no, image, images, labels, cvars, ivars, rvars, gvars>>

\* 2. points = simulate_incomplete_shape(points, is_closed)
Incomplete ==
    /\ pc = "incomplete"
    /\ \E k \in 1..Len(IncompleteDraws) :
          polyline' = simulate_incomplete_shape(polyline, shape_name \in CLOSED_SHAPES,
                        IncompleteDraws[k].u, IncompleteDraws[k].ratio)
    /\ pc' = "speed"
    /\ UNCHANGED <<svars, class_idx, sample_no, image, images, labels, cvars, ivars, rvars, gvars>>

\* 3. if random.random() < 0.5: points = simulate_stroke_speed(points)
StrokeSpeed ==
    /\ pc = "speed"
    /\ \E k \in 1..Len(SpeedDraws) :
          polyline' = IF SpeedDraws[k].u < 50
                      THEN simulate_stroke_speed(polyline, SpeedDraws[k].keep)
                      ELSE polyline
    /\ pc' = "elastic"
    /\ UNCHANGED <<svars, class_idx, sample_no, image, images, labels, cvars, ivars, rvars, gvars>>

\* 4. if random.random() < 0.6: points = elastic_deform(points, alpha, 3.0)
Elastic ==
    /\ pc = "elastic"
    /\ \E k \in 1..Len(ElasticDraws), z \in 1..Len(RandnDraws) :
          polyline' = IF ElasticDraws[k].u < 60
                      THEN elastic_deform(polyline, ElasticDraws[k].alpha,
                                          RandnDraws[z].zx, RandnDraws[z].zy)
                      ELSE polyline
    /\ pc' = "rotate"
    /\ UNCHANGED <<svars, class_idx, sample_no, image, images, labels, cvars, ivars, rvars, gvars>>

\* 5. points = rotate(points, math.radians(angle_deg))
Rotate ==
    /\ pc = "rotate"
    /\ \E k \in 1..Len(RotateDraws(shape_name)) :
          polyline' = rotate(polyline, RotateDraws(shape_name)[k])
    /\ pc' = "scale"
    /\ UNCHANGED <<svars, class_idx, sample_no, image, images, labels, cvars, ivars, rvars, gvars>>

\* 6. points = scale(points, scale_factor)
Scale ==
    /\ pc = "scale"
    /\ \E k \in 1..Len(ScaleDraws) : polyline' = scale(polyline, ScaleDraws[k])
    /\ pc' = "translate"
    /\ UNCHANGED <<svars, class_idx, sample_no, image, images, labels, cvars, ivars, rvars, gvars>>

\* 7. points = translate(points, tx, ty)
Translate ==
    /\ pc = "translate"
    /\ \E k \in 1..Len(TranslateDraws) :
          polyline' = translate(polyline, TranslateDraws[k][1], TranslateDraws[k][2])
    /\ pc' = "noise"
    /\ UNCHANGED <<svars, class_idx, sample_no, image, images, labels, cvars, ivars, rvars, gvars>>

\* 8. points = add_noise(points, noise_std); return points
Noise ==
    /\ pc = "noise"
    /\ \E k \in 1..Len(NoiseDraws) : polyline' = add_noise(polyline, NoiseDraws[k])
    /\ pc' = "rasterize"
    /\ UNCHANGED <<svars, class_idx, sample_no, image, images, labels, cvars, ivars, rvars, gvars>>

\* img = rasterize(points, CANVAS_SIZE)
Rasterize ==
    /\ pc = "rasterize"
    /\ canvas_size >= 0
    /\ image' = rasterize(polyline, canvas_size, stroke_width)
    /\ pc' = "append_image"
    /\ UNCHANGED <<svars, class_idx, sample_no, polyline, images, labels, cvars, ivars, rvars, gvars>>

\* images.append(img)
AppendImage ==
    /\ pc = "append_image"
    /\ images' = Append(images, image)
    /\ pc' = "append_label"
    /\ UNCHANGED <<svars, class_idx, sample_no, polyline, image, labels, cvars, ivars, rvars, gvars>>

\* labels.append(class_idx)
AppendLabel ==
    /\ pc = "append_label"
    /\ labels' = Append(labels, class_idx)
    /\ sample_no' = sample_no + 1
    /\ pc' = "loop"
    /\ UNCHANGED <<svars, class_idx, polyline, image, images, cvars, ivars, rvars, gvars>>

NextSample ==
    \/ Generate
    \/ Wobble
    \/ Incomplete
    \/ StrokeSpeed
    \/ Elastic
    \/ Rotate
    \/ Scale
    \/ Translate
    \/ Noise
    \/ Rasterize
    \/ AppendImage
    \/ AppendLabel

SpecSample == InitSample /\ [][NextSample]_vars

\* ------------------------------------------------------------------------
\* Specification Spec: generate_dataset run once on the global generators
\* ------------------------------------------------------------------------
Seeds == 0..MaxSeed

StartOfRun ==
    /\ IdleStages
    /\ class_idx = 0
    /\ sample_no = 0
    /\ polyline = <<>>
    /\ image = NoImage
    /\ images = <<>>
    /\ labels = <<>>
    /\ pc = "outer"
    /\ dataset = NoDataset
    /\ py_rng \in Seeds
    /\ np_rng \in Seeds
    /\ run = 1
    /\ prev_dataset = NoDataset
    /\ IdleInterp
    /\ IdleRaster

Init ==
    /\ canvas_size = CANVAS_SIZE
    /\ samples_per_class = SAMPLES_PER_CLASS
    /\ stroke_width = STROKE_WIDTH
    /\ StartOfRun

\* for class_idx, shape_name in enumerate(SHAPE_NAMES): gen_fn = ...
EnterClass ==
    /\ pc = "outer"
    /\ class_idx < NUM_CLASSES
    /\ sample_no' = 0
    /\ pc' = "loop"
    /\ UNCHANGED <<svars, class_idx, polyline, image, images, labels, cvars, ivars, rvars, gvars>>

\* the inner loop running once more than SAMPLES_PER_CLASS times
NextIteration_inclusive ==
    /\ pc = "loop"
    /\ sample_no <= samples_per_class
    /\ pc' = "generate"
    /\ UNCHANGED <<svars, class_idx, sample_no, polyline, image, images, labels, cvars, ivars, rvars, gvars>>

\* for _ in range(SAMPLES_PER_CLASS): another iteration
NextIteration ==
    /\ pc = "loop"
    /\ sample_no < samples_per_class
    /\ pc' = "generate"
    /\ UNCHANGED <<svars, class_idx, sample_no, polyline, image, images, labels, cvars, ivars, rvars, gvars>>

\* the inner loop is exhausted: print(" done"), next class
LeaveClass ==
    /\ pc = "loop"
    /\ sample_no >= samples_per_class
    /\ class_idx' = class_idx + 1
    /\ pc' = "outer"
    /\ UNCHANGED <<svars, sample_no, polyline, image, images, labels, cvars, ivars, rvars, gvars>>

\* points = gen_fn(), drawing from the global generator
SeededGenerate ==
    /\ pc = "generate"
    /\ polyline' = seeded_generate(shape_name, py_rng).points
    /\ py_rng' = seeded_generate(shape_name, py_rng).py
    /\ pc' = "augment"
    /\ UNCHANGED <<svars, class_idx, sample_no, image, images, labels, cvars, ivars, rvars,
                   dataset, np_rng, run, prev_dataset>>

\* points = augment(points, shape_name), drawing from the global generators
SeededAugment ==
    /\ pc = "augment"
    /\ LET a == augment(polyline, shape_name, py_rng, np_rng)
       IN  /\ polyline' = a.points
           /\ py_rng' = a.py
           /\ np_rng' = a.np
    /\ pc' = "rasterize"
    /\ UNCHANGED <<svars, class_idx, sample_no, image, images, labels, cvars, ivars, rvars,
                   dataset, run, prev_dataset>>

\* images = np.array(images)[..., np.newaxis]; labels = np.array(labels);
\* return images, labels
Return ==
    /\ pc = "outer"
    /\ class_idx = NUM_CLASSES
    /\ dataset' = [images |-> images, labels |-> labels]
    /\ pc' = "returned"
    /\ UNCHANGED <<svars, class_idx, sample_no, polyline, image, images, labels, cvars, ivars,
                   rvars, py_rng, np_rng, run, prev_dataset>>

NextDataset ==
    \/ EnterClass
    \/ NextIteration
    \/ LeaveClass
    \/ SeededGenerate
    \/ SeededAugment
    \/ Rasterize
    \/ AppendImage
    \/ AppendLabel
    \/ Return

Next == NextDataset

Spec == Init /\ [][Next]_vars

\* ------------------------------------------------------------------------
\* Specification SpecTwoRuns: the program is run twice with the same
\* configuration; each run imports the module afresh
\* ------------------------------------------------------------------------
RunAgain ==
    /\ pc = "returned"
    /\ run = 1
    /\ run' = 2
    /\ prev_dataset' = dataset
    /\ dataset' = NoDataset
    /\ py_rng' \in Seeds
    /\ np_rng' \in Seeds
    /\ class_idx' = 0
    /\ sample_no' = 0
    /\ polyline' = <<>>
    /\ image' = NoImage
    /\ images' = <<>>
    /\ labels' = <<>>
    /\ pc' = "outer"
    /\ UNCHANGED <<svars, cvars, ivars, rvars>>

NextTwoRuns == NextDataset \/ RunAgain

SpecTwoRuns == Init /\ [][NextTwoRuns]_vars

\* ------------------------------------------------------------------------
\* Specification SpecConfig: generate_dataset under every configuration of a
\* bounded set, valid or not
\* ------------------------------------------------------------------------
InitConfig ==
    /\ canvas_size \in {-1, 0, 4}
    /\ samples_per_class \in {-1, 0, 1}
    /\ stroke_width \in {-2, 0, STROKE_WIDTH}
    /\ StartOfRun

\* np.zeros((size, size)) raises ValueError for a negative size
RasterizeRaises ==
    /\ pc = "rasterize"
    /\ canvas_size < 0
    /\ pc' = "error"
    /\ UNCHANGED <<svars, class_idx, sample_no, polyline, image, images, labels, cvars, ivars,
                   rvars, gvars>>

NextConfig == NextDataset \/ RasterizeRaises

SpecConfig == InitConfig /\ [][NextConfig]_vars

\* ------------------------------------------------------------------------
\* Specification SpecStages: one stage called alone on a caller's list.
\* Lists are objects of a heap: a stage that executes `return points` hands
\* back the caller's object, a stage that builds a list hands back a new one.
\* ------------------------------------------------------------------------
StagePoints == { <<8, 8>>, <<12, 8>>, <<12, 12>> }

StageInputs == UNION {[1..n -> StagePoints] : n \in 1..MaxStageLen}

\* values of random.random() in simulate_stroke_speed: below every keep_prob,
\* and above every keep_prob but 1.0
KeepDraws == {20, 99}

\* the angles augment can pass to rotate
StageAngles ==
    {RotateDraws(SHAPE_NAMES[c])[k] : c \in 1..NUM_CLASSES, k \in 1..2}

\* the local list `result` of simulate_stroke_speed after its loop
Retained(points, keep) == <<points[1]>> \o KeptFrom(points, keep, 2)

InitStages ==
    /\ before \in StageInputs
    /\ heap = <<before>>
    /\ ret = 0
    /\ stage = "ready"
    /\ draw = NoDraw
    /\ IdleInterp
    /\ IdleRaster
    /\ IdleDataset

\* the return statement: `return points` (same_object) or a list built by
\* the stage
Returns(value, same_object) ==
    /\ heap' = IF same_object THEN heap ELSE Append(heap, value)
    /\ ret' = IF same_object THEN 1 ELSE Len(heap) + 1

StageWobble ==
    /\ stage = "ready"
    /\ \E k \in 1..Len(WobbleDraws) :
          /\ draw' = WobbleDraws[k]
          /\ Returns(add_hand_wobble(heap[1], WobbleDraws[k].intensity, WobbleDraws[k]),
                     Len(heap[1]) < 2)
    /\ stage' = "add_hand_wobble"
    /\ UNCHANGED <<before, ivars, rvars, cvars, dvars, gvars>>

StageIncomplete ==
    /\ stage = "ready"
    /\ \E c \in BOOLEAN, k \in 1..Len(IncompleteDraws) :
          LET d == IncompleteDraws[k]
          IN  /\ draw' = IF c THEN [is_closed |-> c, u |-> d.u, ratio |-> d.ratio]
                         ELSE [is_closed |-> c]
              /\ Returns(simulate_incomplete_shape(heap[1], c, d.u, d.ratio),
                         ~c \/ d.u > 40)
    /\ stage' = "simulate_incomplete_shape"
    /\ UNCHANGED <<before, ivars, rvars, cvars, dvars, gvars>>

\* simulate_stroke_speed that returns its list `result` however short
StageStrokeSpeed_keep_short ==
    /\ stage = "ready"
    /\ LET n == Len(heap[1])
       IN  \E f \in [2..n -> KeepDraws] :
              LET keep == [i \in 1..n |-> IF i = 1 THEN 0 ELSE f[i]]
              IN  /\ draw' = IF n < 5 THEN NoDraw ELSE [keep |-> keep]
                  /\ Returns(IF n < 5 THEN heap[1] ELSE Retained(heap[1], keep), n < 5)
    /\ stage' = "simulate_stroke_speed"
    /\ UNCHANGED <<before, ivars, rvars, cvars, dvars, gvars>>

StageStrokeSpeed ==
    /\ stage = "ready"
    /\ LET n == Len(heap[1])
       IN  \E f \in [2..n -> KeepDraws] :
              LET keep == [i \in 1..n |-> IF i = 1 THEN 0 ELSE f[i]]
              IN  /\ draw' = IF n < 5 THEN NoDraw ELSE [keep |-> keep]
                  /\ Returns(simulate_stroke_speed(heap[1], keep),
                             n < 5 \/ Len(Retained(heap[1], keep)) < 3)
    /\ stage' = "simulate_stroke_speed"
    /\ UNCHANGED <<before, ivars, rvars, cvars, dvars, gvars>>

StageElastic ==
    /\ stage = "ready"
    /\ \E k \in 1..Len(ElasticDraws), z \in 1..Len(RandnDraws) :
          LET alpha == ElasticDraws[k].alpha
              zx == RandnDraws[z].zx
              zy == RandnDraws[z].zy
          IN  /\ draw' = IF Len(heap[1]) < 2 THEN [alpha |-> alpha]
                         ELSE [alpha |-> alpha, zx |-> zx, zy |-> zy]
              /\ Returns(elastic_deform(heap[1], alpha, zx, zy), Len(heap[1]) < 2)
    /\ stage' = "elastic_deform"
    /\ UNCHANGED <<before, ivars, rvars, cvars, dvars, gvars>>

StageRotate ==
    /\ stage = "ready"
    /\ \E angle \in StageAngles :
          /\ draw' = [angle |-> angle]
          /\ Returns(rotate(heap[1], angle), FALSE)
    /\ stage' = "rotate"
    /\ UNCHANGED <<before, ivars, rvars, cvars, dvars, gvars>>

StageScale ==
    /\ stage = "ready"
    /\ \E k \in 1..Len(ScaleDraws) :
          /\ draw' = [factor |-> ScaleDraws[k]]
          /\ Returns(scale(heap[1], ScaleDraws[k]), FALSE)
    /\ stage' = "scale"
    /\ UNCHANGED <<before, ivars, rvars, cvars, dvars, gvars>>

\* translate that moves the points of the list it was given
StageTranslate_in_place ==
    /\ stage = "ready"
    /\ \E k \in 1..Len(TranslateDraws) :
          /\ draw' = [dx |-> TranslateDraws[k][1], dy |-> TranslateDraws[k][2]]
          /\ heap' = [heap EXCEPT ![1] =
                         translate(heap[1], TranslateDraws[k][1], TranslateDraws[k][2])]
          /\ ret' = 1
    /\ stage' = "translate"
    /\ UNCHANGED <<before, ivars, rvars, cvars, dvars, gvars>>

StageTranslate ==
    /\ stage = "ready"
    /\ \E k \in 1..Len(TranslateDraws) :
          /\ draw' = [dx |-> TranslateDraws[k][1], dy |-> TranslateDraws[k][2]]
          /\ Returns(translate(heap[1], TranslateDraws[k][1], TranslateDraws[k][2]), FALSE)
    /\ stage' = "translate"
    /\ UNCHANGED <<before, ivars, rvars, cvars, dvars, gvars>>

StageNoise ==
    /\ stage = "ready"
    /\ \E k \in 1..Len(NoiseDraws) :
          /\ draw' = [gauss |-> NoiseDraws[k]]
          /\ Returns(add_noise(heap[1], NoiseDraws[k]), FALSE)
    /\ stage' = "add_noise"
    /\ UNCHANGED <<before, ivars, rvars, cvars, dvars, gvars>>

StageNormalize ==
    /\ stage = "ready"
    /\ draw' = NoDraw
    /\ Returns(normalize_points(heap[1], CANVAS_SIZE), FALSE)
    /\ stage' = "normalize_points"
    /\ UNCHANGED <<before, ivars, rvars, cvars, dvars, gvars>>

\* rasterize builds the local list `norm` and the array `img`, and returns
\* img
StageRasterize ==
    /\ stage = "ready"
    /\ draw' = NoDraw
    /\ heap' = heap \o << normalize_points(heap[1], CANVAS_SIZE),
                          rasterize(heap[1], CANVAS_SIZE, STROKE_WIDTH) >>
    /\ ret' = Len(heap) + 2
    /\ stage' = "rasterize"
    /\ UNCHANGED <<before, ivars, rvars, cvars, dvars, gvars>>

NextStages ==
    \/ StageWobble
    \/ StageIncomplete
    \/ StageStrokeSpeed
    \/ StageElastic
    \/ StageRotate
    \/ StageScale
    \/ StageTranslate
    \/ StageNoise
    \/ StageNormalize
    \/ StageRasterize

SpecStages == InitStages /\ [][NextStages]_vars

\* C1: for every vertex list with at least one vertex and every
\* total_points >= 1, interpolate_along_edges returns exactly total_points
\* points, also when the per-edge counts sum to less than total_points and
\* when the total length is zero.
C1_ExactlyTotalPoints ==
    ipc = "ret" => Len(interp_out) = total_points


AllIdentical(points) == \A i \in 1..Len(points) : points[i] = points[1]

\* C2: rasterize of a polyline whose points are all identical lights at
\* least the centre pixel (size/2, size/2).
C2_IdenticalPointsLightCentre ==
    (rpc = "rasterized" /\ AllIdentical(rpoints))
        => Pixel(img_out, rsize \div 2, rsize \div 2) = 1

\* C5: rasterize assigns no pixel outside the size x size grid, and every
\* pixel of the returned grid is 0 or 1.
C5_WritesInsideGrid ==
    rpc = "rasterized" =>
        /\ img_out.size = rsize
        /\ img_out.lit \subseteq Grid(rsize)
        /\ \A p \in Grid(rsize) : Pixel(img_out, p[1], p[2]) \in {0, 1}

\* a canvas of side 4 on which a stamp pixel fell outside and was dropped
C5_Witness_Clipped ==
    /\ rpc = "rasterized"
    /\ rsize = 4
    /\ img_out.lit # {}
    /\ LET norm == normalize_points(rpoints, rsize)
       IN  \E i \in 2..Len(norm.pts) :
             \E p \in SegStamps(norm, i, rstroke) :
                p[1] < 0 \/ p[1] >= rsize \/ p[2] < 0 \/ p[2] >= rsize

OutXs == {norm_out.pts[i][1] : i \in 1..Len(norm_out.pts)}

OutYs == {norm_out.pts[i][2] : i \in 1..Len(norm_out.pts)}

\* the four parts of the normalisation contract, on fractions over den:
\* same count, inside [0, size]^2, larger extent = size - 2*padding = 0.8*size,
\* equal margins on opposite sides
NormalizeContract ==
    /\ Len(norm_out.pts) = Len(rpoints)
    /\ \A i \in 1..Len(norm_out.pts) :
          /\ 0 <= norm_out.pts[i][1] /\ norm_out.pts[i][1] <= rsize * norm_out.den
          /\ 0 <= norm_out.pts[i][2] /\ norm_out.pts[i][2] <= rsize * norm_out.den
    /\ 10 * Max2(MaxOf(OutXs) - MinOf(OutXs), MaxOf(OutYs) - MinOf(OutYs))
          = 8 * rsize * norm_out.den
    /\ MinOf(OutXs) + MaxOf(OutXs) = rsize * norm_out.den
    /\ MinOf(OutYs) + MaxOf(OutYs) = rsize * norm_out.den

C4_AtLeastThreePoints ==
    pc \in {"wobble", "incomplete", "speed", "elastic", "rotate", "scale",
            "translate", "noise", "rasterize"} => Len(polyline) >= 3

\* stroke-speed resampling left exactly three points of a generated shape
C4_Witness_ResampledToThree ==
    pc = "elastic" /\ Len(polyline) = 3

\* C7: every image appended to the dataset has at least one nonzero pixel.
C7_AppendedImagesNonBlank ==
    \A i \in 1..Len(images) : images[i].lit # {}


Count(seq, v) == Cardinality({i \in 1..Len(seq) : seq[i] = v})

\* C3: images and labels have the same length between samples, at every
\* point of generate_dataset; no class index ever appears more than
\* SAMPLES_PER_CLASS times, at completion each class index 0..9 appears
\* exactly SAMPLES_PER_CLASS times, and the labels are in class-major order.
C3_BalancedClassMajor ==
    /\ pc # "append_label" => Len(images) = Len(labels)
    /\ \A c \in 0..(NUM_CLASSES - 1) : Count(labels, c) <= samples_per_class
    /\ \A i \in 1..(Len(labels) - 1) : labels[i] <= labels[i + 1]
    /\ pc = "returned" =>
          /\ Len(dataset.images) = Len(dataset.labels)
          /\ \A c \in 0..(NUM_CLASSES - 1) : Count(dataset.labels, c) = samples_per_class
          /\ \A i \in 1..(Len(dataset.labels) - 1) :
                dataset.labels[i] <= dataset.labels[i + 1]

\* the dataset was returned, with more than one sample of the last class
C3_Witness_Returned ==
    /\ pc = "returned"
    /\ Len(dataset.labels) = NUM_CLASSES * samples_per_class
    /\ Count(dataset.labels, NUM_CLASSES - 1) >= 2

\* C8: two runs of generate_dataset with the same configuration return the
\* same dataset: the same images and the same labels in the same order.
C8_RunsReturnSameDataset ==
    (run = 2 /\ pc = "returned") => dataset = prev_dataset

\* C9: the computation of a sample (generator, augment) leaves the state
\* shared by all samples, the global generators, as it found it.
C9_SampleLeavesSharedStateAlone ==
    [][(pc \in {"generate", "augment"}) => UNCHANGED <<py_rng, np_rng>>]_vars

InvalidConfig == canvas_size <= 0 \/ samples_per_class <= 0 \/ stroke_width <= 0

\* C10: under an invalid configuration the program fails before any sample
\* is generated: no generator runs and no dataset is returned.
C10_InvalidConfigFailsFast ==
    InvalidConfig => pc \notin {"augment", "rasterize", "append_image",
                                "append_label", "returned"}


\* C11: simulate_incomplete_shape returns the polyline unchanged when
\* is_closed is false; when is_closed is true and the input has n >= 3
\* points the result is the input unchanged or its prefix of length
\* max(3, floor(n * ratio)) for a ratio in [0.80, 0.95]: only tail points
\* are removed, at least 3 are kept, and the result is no longer than the
\* input.
C11_IncompleteKeepsPrefix ==
    stage = "simulate_incomplete_shape" =>
        LET out == heap[ret]
            n == Len(before)
        IN  /\ ~draw.is_closed => out = before
            /\ (draw.is_closed /\ n >= 3) =>
                  /\ \/ out = before
                     \/ \E ratio \in 80..95 :
                           out = [i \in 1..Max2(3, (n * ratio) \div 100) |-> before[i]]
                  /\ Len(out) >= 3
                  /\ Len(out) <= n
                  /\ \A i \in 1..Len(out) : out[i] = before[i]

\* a closed polyline of at least 3 points lost its tail
C11_Witness_Truncated ==
    /\ stage = "simulate_incomplete_shape"
    /\ draw.is_closed
    /\ Len(heap[ret]) >= 3
    /\ Len(heap[ret]) < Len(before)


\* the j-th smallest element of a set of indices
NthOf(S, j) == CHOOSE i \in S : Cardinality({k \in S : k < i}) = j - 1

\* the points of a polyline at the indices S, in the original order
PointsAt(points, S) == [j \in 1..Cardinality(S) |-> points[NthOf(S, j)]]

\* C12: when the random selection of simulate_stroke_speed retains fewer
\* than 3 points the original polyline is returned unchanged; otherwise the
\* retained points are returned, and they begin with the input's first point
\* and are a subsequence of the input in the original order.
C12_StrokeSpeedFallback ==
    stage = "simulate_stroke_speed" =>
        LET out == heap[ret]
            n == Len(before)
            kept == {1} \cup {i \in 2..n : draw.keep[i] < KeepProb100(before, i)}
        IN  /\ out[1] = before[1]
            /\ \E S \in SUBSET (1..n) : 1 \in S /\ out = PointsAt(before, S)
            /\ n >= 5 =>
                  IF Cardinality(kept) < 3 THEN out = before
                  ELSE out = PointsAt(before, kept)

\* the selection dropped points and retained at least 3
C12_Witness_Resampled ==
    /\ stage = "simulate_stroke_speed"
    /\ Len(before) >= 5
    /\ Len(heap[ret]) >= 3
    /\ Len(heap[ret]) < Len(before)


\* the slots of augment in program order, then the rasterize call
StageOrder ==
    << "wobble", "incomplete", "speed", "elastic", "rotate", "scale", "translate",
       "noise", "rasterize" >>

\* the points a[i..] occur in b[j..] in the same order
RECURSIVE IsSubsequence(_, _, _, _)
IsSubsequence(a, b, i, j) ==
    IF i > Len(a) THEN TRUE
    ELSE IF j > Len(b) THEN FALSE
    ELSE IF a[i] = b[j] THEN IsSubsequence(a, b, i + 1, j + 1)
    ELSE IsSubsequence(a, b, i, j + 1)

StagesStep ==
    /\ \A k \in 1..8 : pc = StageOrder[k] => pc' = StageOrder[k + 1]
    /\ pc' \in {StageOrder[k] : k \in 2..9} =>
          \E k \in 1..8 : pc = StageOrder[k] /\ pc' = StageOrder[k + 1]
    /\ pc = "speed" =>
          \/ polyline' = polyline
          \/ /\ Len(polyline') < Len(polyline)
             /\ polyline'[1] = polyline[1]
             /\ IsSubsequence(polyline', polyline, 1, 1)
    /\ pc = "elastic" => Len(polyline') = Len(polyline)
    /\ pc = "rotate" =>
          \E angle \in ROTATION_RANGES(shape_name)[1]..ROTATION_RANGES(shape_name)[2] :
             polyline' = rotate(polyline, angle)

\* C13: augment runs its stages in the fixed order wobble, incompleteness,
\* stroke speed, elastic, rotation, scale, translation, noise: every step
\* leaves a slot for the next one, no slot is entered from anywhere but the
\* slot before it, the optional stages leave the polyline as it is or act in
\* their slot, and the rotation angle lies in the range configured for the
\* sample's own class.
C13_StagesInFixedOrder == [][StagesStep]_vars

\* all eight slots were passed for a triangle, and a stage shortened it
C13_Witness_TriangleAugmented ==
    /\ pc = "rasterize"
    /\ shape_name = "triangle"
    /\ Len(polyline) >= 3
    /\ Len(polyline) < 35


\* the caller's list holds the same points in the same order as before
InputUntouched == heap[1] = before

\* C14 (as stated): no augmentation stage, nor normalize_points or
\* rasterize, changes the list passed to it, and the result of a stage is
\* returned as a new list.
C14_StagesReturnNewList ==
    stage \notin {"idle", "ready"} =>
        /\ InputUntouched
        /\ ret # 1

\* C14 (amended): no stage changes the list passed to it; rotate, scale,
\* translate, add_noise, normalize_points and rasterize return a new object;
\* add_hand_wobble and elastic_deform return a new list for 2 points or more
\* and the caller's list for fewer; simulate_incomplete_shape returns a new
\* list when it slices and the caller's list for an open shape or when its
\* first draw is above 0.4; simulate_stroke_speed returns a new list when its
\* selection ran and retained 3 points or more, and the caller's list
\* otherwise.
C14_StagesLeaveInputUntouched ==
    stage \notin {"idle", "ready"} =>
        /\ InputUntouched
        /\ stage \in {"rotate", "scale", "translate", "add_noise", "normalize_points",
                      "rasterize"} => ret # 1
        /\ stage \in {"add_hand_wobble", "elastic_deform"} =>
              (ret = 1 <=> Len(before) < 2)
        /\ stage = "simulate_incomplete_shape" =>
              (ret = 1 <=> (~draw.is_closed \/ draw.u > 40))
        /\ stage = "simulate_stroke_speed" =>
              (ret = 1 <=>
                 \/ Len(before) < 5
                 \/ Cardinality({i \in 2..Len(before) :
                                   draw.keep[i] < KeepProb100(before, i)}) < 2)
        /\ ret = 1 => heap[ret] = before

\* translate returned a new list whose points differ from the caller's
C14_Witness_TranslatedCopy ==
    /\ stage = "translate"
    /\ ret = 2
    /\ heap[2] # heap[1]
    /\ heap[1] = before

====
